---- MODULE Spec2Model ----
(***************************************************************************)
(* The shellcaster main controller (src/src/main.rs): one thread that      *)
(* drains the inbound channel and applies every message to the shared      *)
(* podcast list, the database, the feed checkers and the download manager. *)
(* The database (db), the feed checker (feeds), the download manager       *)
(* (downloads) and the UI thread (ui) are modules whose source is not in   *)
(* src/; they are modelled from spec.md sections 4 to 6.                    *)
(***************************************************************************)
EXTENDS Naturals, Sequences, FiniteSets, Bags, TLC

\* ------------------------------------------------------------------ bounds
MaxIntents  == 2   \* user intents Presentation sends in one run
MaxInitPods == 1   \* podcasts the database holds at start-up
MaxInitEps  == 1   \* episodes of a podcast the database holds at start-up
MaxFeedEps  == 2   \* episodes one fetched feed document adds
MaxBadIdx   == 1   \* largest index an unvalidated intent carries

\* ------------------------------------------------------- program constants
MsgDuration == 5000

VARIABLES
    db,        \* Persistence: the podcast rows, in getPodcasts order
    cat,       \* podcast_list: the Catalog (Arc<Mutex<Vec<Podcast>>>)
    inbox,     \* rx_to_main: the inbound channel, oldest message first
    pc,        \* position of the Controller inside main's loop
    cur,       \* the message the Controller is handling (or handled last)
    loc,       \* the handler's local variables
    held,      \* held[t]: the Catalog locks thread t holds, in acquisition order
    feeds,     \* feed checkers in flight: a bag of [url, id]
    units,     \* download units of the DownloadManager
    batches,   \* per download_list call: [n, results, write_failed, completed]
    notes,     \* what the Controller sent on tx_to_ui while handling cur
    pre,       \* cat and db as they were when cur was taken off the channel
    prevMsg,   \* the message handled before cur
    budget,    \* intents Presentation may still send
    tally      \* feed checkers that failed, and the messages shown for them

vars == <<db, cat, inbox, pc, cur, loc, held, feeds, units, batches, notes,
          pre, prevMsg, budget, tally>>

\* -------------------------------------------------------------------- data
NoPath == <<>>
NoId   == 0
FeedUrls == {"a"}
Bools == {TRUE, FALSE}

Episode(id) == [id |-> id, played |-> FALSE, path |-> NoPath]

RECURSIVE SumLens(_)
SumLens(rows) ==
    IF rows = <<>> THEN 0 ELSE Len(Head(rows).eps) + SumLens(Tail(rows))

\* Some(id) is a positive number, None is NoId.
NextPodId(d) == Len(d) + 1
NextEpId(d)  == SumLens(d) + 1

NewEpisodes(first, k) == [i \in 1..k |-> Episode(first + i - 1)]

InsertAt(s, pos, x) == SubSeq(s, 1, pos - 1) \o <<x>> \o SubSeq(s, pos, Len(s))

AnyUnplayed(eps) == \E i \in 1..Len(eps) : ~eps[i].played

\* vec.get(i): i is a 0-based index; InRange is get(i).is_some().
InRange(s, i) == i + 1 \in 1..Len(s)
Get(s, i) == s[i + 1]

\* iter().position(|x| x.id == Some(id)); 0 when there is none.
Position(s, id) ==
    IF \E i \in 1..Len(s) : s[i].id = id
    THEN CHOOSE i \in 1..Len(s) : s[i].id = id /\ \A j \in 1..(i - 1) : s[j].id # id
    ELSE 0

\* ------------------------------------------------------------- Persistence
\* getPodcasts(): the rows in the store's order, each with its episodes and
\* the derived any_unplayed flag.
GetPodcasts(d) ==
    [i \in 1..Len(d) |->
        [id |-> d[i].id, url |-> d[i].url, eps |-> d[i].eps,
         any_unplayed |-> AnyUnplayed(d[i].eps)]]

\* getEpisodes(podcastId)
GetEpisodes(d, pid) ==
    IF Position(d, pid) = 0 THEN <<>> ELSE d[Position(d, pid)].eps

\* insertPodcast(parsed): the rows after a successful insert of a podcast
\* with k episodes that the store lists at position pos.
InsertPodcast(d, url, k, pos) ==
    InsertAt(d, pos, [id |-> NextPodId(d), url |-> url,
                      eps |-> NewEpisodes(NextEpId(d), k)])

\* updatePodcast(parsed): the episodes the feed has and the store has not are
\* appended to the podcast's episodes.
UpdatePodcast(d, pid, n) ==
    [i \in 1..Len(d) |->
        IF d[i].id = pid
        THEN [d[i] EXCEPT !.eps = @ \o NewEpisodes(NextEpId(d), n)]
        ELSE d[i]]

\* setPlayedStatus(episodeId, played)
SetPlayedStatus(d, eid, played) ==
    [i \in 1..Len(d) |->
        [d[i] EXCEPT !.eps =
            [j \in 1..Len(@) |->
                IF @[j].id = eid THEN [@[j] EXCEPT !.played = played] ELSE @[j]]]]

RECURSIVE SetPlayedAll(_, _, _)
SetPlayedAll(d, eps, played) ==
    IF eps = <<>> THEN d
    ELSE SetPlayedAll(SetPlayedStatus(d, Head(eps).id, played), Tail(eps), played)

\* insertFile(episodeId, path)
InsertFile(d, eid, path) ==
    [i \in 1..Len(d) |->
        [d[i] EXCEPT !.eps =
            [j \in 1..Len(@) |->
                IF @[j].id = eid THEN [@[j] EXCEPT !.path = path] ELSE @[j]]]]

\* ------------------------------------------------- messages, notifications
NoMsg == [type |-> "None"]

UiUpdateMenus == [type |-> "UiUpdateMenus"]
UiTearDown    == [type |-> "UiTearDown"]
UiSpawnMsgWin(text, arg, dur) ==
    [type |-> "UiSpawnMsgWin", text |-> text, arg |-> arg, dur |-> dur]

NoArg == <<>>
Title(pid) == <<"title", pid>>

\* The file a download of episode eid of podcast pid writes:
\* config.download_path / podcast title / episode file.
FilePath(pid, eid) == <<"download_path", Title(pid), eid>>

\* No feed checker has failed and no message was shown for one.
NoTally == [failed |-> 0, notified |-> 0]

\* The handler's locals: the cloned podcast (its id and its copy of
\* any_unplayed), the recomputed any_unplayed, the cloned episode, the
\* episode references, SyncAll's pod_data, insert_podcast's num_ep, and
\* whether a call of Persistence returned Err.
NoLoc == [pid |-> NoId, podcast_any |-> FALSE, any_unplayed |-> FALSE,
          episode |-> Episode(NoId), episode_refs |-> <<>>,
          pod_data |-> <<>>, num_ep |-> 0, db_err |-> FALSE]

\* ------------------------------------------------------------------- locks
PodLock == <<"podcast_list">>
EpLock(pid) == <<"episodes", pid>>

Holders(l) == {t \in DOMAIN held : \E i \in 1..Len(held[t]) : held[t][i] = l}
Free(l) == Holders(l) = {}

Acquire(t, l) == [held EXCEPT ![t] = Append(@, l)]
\* The guards dropped in the other order: the lock acquired first goes first.
ReleaseLast_OuterFirst(t) == [held EXCEPT ![t] = Tail(@)]

\* A guard is dropped: the lock acquired last is released first.
ReleaseLast(t) == [held EXCEPT ![t] = SubSeq(@, 1, Len(@) - 1)]
ReleaseAll(t) == [held EXCEPT ![t] = <<>>]

\* -------------------------------------------------------------------- Init
InitFlags == UNION {[1..n -> Bools] : n \in 0..MaxInitEps}
InitShapes == UNION {[1..m -> InitFlags] : m \in 0..MaxInitPods}

RECURSIVE BuildDb(_, _)
BuildDb(d, shapes) ==
    IF shapes = <<>> THEN d
    ELSE LET fl == Head(shapes)
             first == NextEpId(d)
             row == [id |-> NextPodId(d), url |-> "a",
                     eps |-> [j \in 1..Len(fl) |->
                                [id |-> first + j - 1, played |-> fl[j],
                                 path |-> NoPath]]]
         IN BuildDb(Append(d, row), Tail(shapes))

\* main.rs 62-77: the channels are empty, the database is connected and the
\* podcast list is what get_podcasts() returns.
Init ==
    /\ db \in {BuildDb(<<>>, sh) : sh \in InitShapes}
    /\ cat = GetPodcasts(db)
    /\ inbox = <<>>
    /\ pc = "idle"
    /\ cur = NoMsg
    /\ loc = NoLoc
    /\ held = [ctrl |-> <<>>, ui |-> <<>>]
    /\ feeds = EmptyBag
    /\ units = {}
    /\ batches = <<>>
    /\ notes = <<>>
    /\ pre = [cat |-> cat, db |-> db]
    /\ prevMsg = NoMsg
    /\ budget = MaxIntents
    /\ tally = NoTally

\* The process runs: main has neither panicked nor returned from its loop.
Running == pc \notin {"crashed", "done"}

\* ------------------------------------------------------------ Presentation
\* The intents Presentation can form from the Catalog c it is showing: an
\* index it sends is the position of an entry of c. snap_pod and snap_ep
\* record which podcast and episode were at that position (they are not
\* part of UiMsg and no handler reads them).
PodIntents(c) ==
    {[type |-> t, pod_index |-> i, snap_pod |-> Get(c, i).id] :
        t \in {"Sync", "DownloadAll"}, i \in 0..(Len(c) - 1)}
    \cup
    {[type |-> "MarkAllPlayed", pod_index |-> i, played |-> b,
      snap_pod |-> Get(c, i).id] : i \in 0..(Len(c) - 1), b \in Bools}

EpIntentsOf(c, i) ==
    {[type |-> t, pod_index |-> i, ep_index |-> j, snap_pod |-> Get(c, i).id,
      snap_ep |-> Get(Get(c, i).eps, j).id] :
        t \in {"Play", "Download"}, j \in 0..(Len(Get(c, i).eps) - 1)}
    \cup
    {[type |-> "MarkPlayed", pod_index |-> i, ep_index |-> j, played |-> b,
      snap_pod |-> Get(c, i).id, snap_ep |-> Get(Get(c, i).eps, j).id] :
        j \in 0..(Len(Get(c, i).eps) - 1), b \in Bools}

Intents(c) ==
    {[type |-> "Quit"], [type |-> "SyncAll"], [type |-> "Noop"]}
    \cup {[type |-> "AddFeed", url |-> u] : u \in FeedUrls}
    \cup PodIntents(c)
    \cup UNION {EpIntentsOf(c, i) : i \in 0..(Len(c) - 1)}

\* Presentation reads the Catalog under the podcast-list lock and sends one
\* intent built from what it read.
UiSend ==
    /\ Running /\ budget > 0
    /\ held.ui = <<>> /\ Free(PodLock)
    /\ \E m \in Intents(cat) : inbox' = Append(inbox, m)
    /\ budget' = budget - 1
    /\ UNCHANGED <<db, cat, pc, cur, loc, held, feeds, units, batches, notes,
                   pre, prevMsg, tally>>

\* Rendering: the podcast-list lock, then the episode-list lock of one
\* podcast, released in reverse order.
UiLockPods ==
    /\ Running /\ held.ui = <<>> /\ Free(PodLock)
    /\ held' = Acquire("ui", PodLock)
    /\ UNCHANGED <<db, cat, inbox, pc, cur, loc, feeds, units, batches, notes,
                   pre, prevMsg, budget, tally>>

UiLockEps ==
    /\ Running /\ held.ui = <<PodLock>>
    /\ \E i \in 1..Len(cat) :
          /\ Free(EpLock(cat[i].id))
          /\ held' = Acquire("ui", EpLock(cat[i].id))
    /\ UNCHANGED <<db, cat, inbox, pc, cur, loc, feeds, units, batches, notes,
                   pre, prevMsg, budget, tally>>

UiRelease ==
    /\ held.ui # <<>>
    /\ held' = ReleaseLast("ui")
    /\ UNCHANGED <<db, cat, inbox, pc, cur, loc, feeds, units, batches, notes,
                   pre, prevMsg, budget, tally>>

\* -------------------------------------------------------------- Controller
\* unwrap() of None: the main thread panics, its guards are dropped and the
\* process ends.
Panic ==
    /\ pc' = "crashed"
    /\ held' = ReleaseAll("ctrl")
    /\ UNCHANGED <<db, cat, inbox, cur, loc, feeds, units, batches, notes,
                   pre, prevMsg, budget, tally>>

\* The newest message taken instead of the oldest.
Recv_Newest ==
    /\ pc = "idle" /\ inbox # <<>>
    /\ cur' = inbox[Len(inbox)]
    /\ inbox' = SubSeq(inbox, 1, Len(inbox) - 1)
    /\ pc' = inbox[Len(inbox)].type
    /\ loc' = NoLoc
    /\ notes' = <<>>
    /\ pre' = [cat |-> cat, db |-> db]
    /\ prevMsg' = cur
    /\ UNCHANGED <<db, cat, held, feeds, units, batches, budget, tally>>

\* message_iter.next() and the match on the message.
Recv ==
    /\ pc = "idle" /\ inbox # <<>>
    /\ cur' = Head(inbox)
    /\ inbox' = Tail(inbox)
    /\ pc' = Head(inbox).type
    /\ loc' = NoLoc
    /\ notes' = <<>>
    /\ pre' = [cat |-> cat, db |-> db]
    /\ prevMsg' = cur
    /\ UNCHANGED <<db, cat, held, feeds, units, batches, budget, tally>>

\* The teardown sent without leaving the loop.
Quit_Continue ==
    /\ pc = "Quit"
    /\ notes' = Append(notes, UiTearDown)
    /\ pc' = "idle"
    /\ UNCHANGED <<db, cat, inbox, cur, loc, held, feeds, units, batches, pre,
                   prevMsg, budget, tally>>

\* Message::Ui(UiMsg::Quit) => break; after the loop, main.rs 341 sends
\* UiTearDown and 342 joins the UI thread.
Quit ==
    /\ pc = "Quit"
    /\ notes' = Append(notes, UiTearDown)
    /\ pc' = "done"
    /\ UNCHANGED <<db, cat, inbox, cur, loc, held, feeds, units, batches,
                   pre, prevMsg, budget, tally>>

Noop ==
    /\ pc = "Noop"
    /\ pc' = "idle"
    /\ UNCHANGED <<db, cat, inbox, cur, loc, held, feeds, units, batches,
                   notes, pre, prevMsg, budget, tally>>

\* feeds::spawn_feed_checker(tx, url, id)
SpawnFeedChecker(f, url, id) == f (+) SetToBag({[url |-> url, id |-> id]})

RECURSIVE SpawnAll(_, _)
SpawnAll(f, data) ==
    IF data = <<>> THEN f
    ELSE SpawnAll(SpawnFeedChecker(f, Head(data)[1], Head(data)[2]), Tail(data))

\* The handler that starts the checker as a sync of podcast 1.
AddFeed_WithId ==
    /\ pc = "AddFeed"
    /\ feeds' = SpawnFeedChecker(feeds, cur.url, 1)
    /\ pc' = "idle"
    /\ UNCHANGED <<db, cat, inbox, cur, loc, held, units, batches, notes,
                   pre, prevMsg, budget, tally>>

\* Message::Ui(UiMsg::AddFeed(url)): one feed checker with no id.
AddFeed ==
    /\ pc = "AddFeed"
    /\ feeds' = SpawnFeedChecker(feeds, cur.url, NoId)
    /\ pc' = "idle"
    /\ UNCHANGED <<db, cat, inbox, cur, loc, held, units, batches, notes,
                   pre, prevMsg, budget, tally>>

\* Message::Feed(FeedMsg::NewData(pod)): db_inst.insert_podcast(pod) is
\* Ok(num_ep) or Err.
NewData ==
    /\ pc = "NewData"
    /\ \E ok \in Bools :
         IF ok
         THEN /\ \E pos \in 1..(Len(db) + 1) :
                    db' = InsertPodcast(db, cur.url, cur.num_ep, pos)
              /\ loc' = [loc EXCEPT !.num_ep = cur.num_ep]
              /\ pc' = "NewData_Ok"
              /\ notes' = notes
         ELSE /\ notes' = Append(notes, UiSpawnMsgWin(
                       "Error adding podcast to database.", NoArg, MsgDuration))
              /\ pc' = "idle"
              /\ loc' = [loc EXCEPT !.db_err = TRUE]
              /\ db' = db
    /\ UNCHANGED <<cat, inbox, cur, held, feeds, units, batches, pre,
                   prevMsg, budget, tally>>

\* The handler without the reload of the podcast list.
NewData_Ok_NoReload ==
    /\ pc = "NewData_Ok"
    /\ Free(PodLock)
    /\ notes' = notes \o <<UiUpdateMenus,
                           UiSpawnMsgWin("Successfully added {} episodes.",
                                         loc.num_ep, MsgDuration)>>
    /\ pc' = "idle"
    /\ UNCHANGED <<db, cat, inbox, cur, loc, held, feeds, units, batches,
                   pre, prevMsg, budget, tally>>

\* *podcast_list.lock().unwrap() = db_inst.get_podcasts(), then the two
\* notifications.
NewData_Ok ==
    /\ pc = "NewData_Ok"
    /\ Free(PodLock)
    /\ cat' = GetPodcasts(db)
    /\ notes' = notes \o <<UiUpdateMenus,
                           UiSpawnMsgWin("Successfully added {} episodes.",
                                         loc.num_ep, MsgDuration)>>
    /\ pc' = "idle"
    /\ UNCHANGED <<db, inbox, cur, loc, held, feeds, units, batches, pre,
                   prevMsg, budget, tally>>

FeedErrorNote == UiSpawnMsgWin("Error retrieving RSS feed.", NoArg, MsgDuration)

\* How many of the notifications ns are that message (notes is empty when a
\* handler starts, so this counts what the handler sent).
FeedErrShown(ns) ==
    Cardinality({k \in 1..Len(ns) :
        ns[k].type = "UiSpawnMsgWin" /\ ns[k].text = FeedErrorNote.text})

\* The handler with a menu refresh after the notification.
FeedError_Refresh ==
    /\ pc = "FeedError"
    /\ notes' = notes \o <<FeedErrorNote, UiUpdateMenus>>
    /\ tally' = [tally EXCEPT !.notified = @ + FeedErrShown(notes')]
    /\ pc' = "idle"
    /\ UNCHANGED <<db, cat, inbox, cur, loc, held, feeds, units, batches,
                   pre, prevMsg, budget>>

\* Message::Feed(FeedMsg::Error)
FeedError ==
    /\ pc = "FeedError"
    /\ notes' = Append(notes, FeedErrorNote)
    /\ tally' = [tally EXCEPT !.notified = @ + FeedErrShown(notes')]
    /\ pc' = "idle"
    /\ UNCHANGED <<db, cat, inbox, cur, loc, held, feeds, units, batches,
                   pre, prevMsg, budget>>

\* The handler that reloads and refreshes whether or not the update went in.
SyncData_Reload ==
    /\ pc = "SyncData"
    /\ \E ok \in Bools :
         IF ok /\ Position(db, cur.id) # 0
         THEN /\ db' = UpdatePodcast(db, cur.id, cur.num_ep)
              /\ UNCHANGED <<notes, loc>>
         ELSE /\ notes' = Append(notes, UiSpawnMsgWin(
                       "Error synchronizing {}.", Title(cur.id), MsgDuration))
              /\ loc' = [loc EXCEPT !.db_err = TRUE]
              /\ db' = db
    /\ pc' = "SyncData_Ok"
    /\ UNCHANGED <<cat, inbox, cur, held, feeds, units, batches, pre,
                   prevMsg, budget, tally>>

\* Message::Feed(FeedMsg::SyncData(pod)): db_inst.update_podcast(pod) is
\* Ok or Err.
SyncData ==
    /\ pc = "SyncData"
    /\ \E ok \in Bools :
         IF ok /\ Position(db, cur.id) # 0
         THEN /\ db' = UpdatePodcast(db, cur.id, cur.num_ep)
              /\ pc' = "SyncData_Ok"
              /\ UNCHANGED <<notes, loc>>
         ELSE /\ notes' = Append(notes, UiSpawnMsgWin(
                       "Error synchronizing {}.", Title(cur.id), MsgDuration))
              /\ pc' = "idle"
              /\ loc' = [loc EXCEPT !.db_err = TRUE]
              /\ db' = db
    /\ UNCHANGED <<cat, inbox, cur, held, feeds, units, batches, pre,
                   prevMsg, budget, tally>>

SyncData_Ok ==
    /\ pc = "SyncData_Ok"
    /\ Free(PodLock)
    /\ cat' = GetPodcasts(db)
    /\ notes' = notes \o <<UiUpdateMenus,
                           UiSpawnMsgWin("Synchronized {}.", Title(cur.id),
                                         MsgDuration)>>
    /\ pc' = "idle"
    /\ UNCHANGED <<db, inbox, cur, loc, held, feeds, units, batches, pre,
                   prevMsg, budget, tally>>

\* podcast_list.lock().unwrap(), the first statement of seven handlers.
LockPodcastList(next) ==
    /\ Free(PodLock)
    /\ held' = Acquire("ctrl", PodLock)
    /\ pc' = next
    /\ UNCHANGED <<db, cat, inbox, cur, loc, feeds, units, batches, notes,
                   pre, prevMsg, budget, tally>>

\* Message::Ui(UiMsg::Sync(pod_index))
Sync == pc = "Sync" /\ LockPodcastList("Sync_get")

\* get(pod_index).unwrap(), url and id copied, the block's guard dropped.
Sync_get ==
    /\ pc = "Sync_get"
    /\ IF InRange(cat, cur.pod_index)
       THEN /\ loc' = [loc EXCEPT
                    !.pid = Get(cat, cur.pod_index).id,
                    !.pod_data = <<<<Get(cat, cur.pod_index).url,
                                    Get(cat, cur.pod_index).id>>>>]
            /\ held' = ReleaseAll("ctrl")
            /\ pc' = "Sync_spawn"
            /\ UNCHANGED <<db, cat, inbox, cur, feeds, units, batches, notes,
                           pre, prevMsg, budget, tally>>
       ELSE Panic

Sync_spawn ==
    /\ pc = "Sync_spawn"
    /\ feeds' = SpawnAll(feeds, loc.pod_data)
    /\ pc' = "idle"
    /\ UNCHANGED <<db, cat, inbox, cur, loc, held, units, batches, notes,
                   pre, prevMsg, budget, tally>>

\* Message::Ui(UiMsg::SyncAll)
SyncAll == pc = "SyncAll" /\ LockPodcastList("SyncAll_data")

\* The snapshot that misses the last podcast.
PodData_SkipLast(c) == [i \in 1..(Len(c) - 1) |-> <<c[i].url, c[i].id>>]

\* main.rs 139-145: (url, id) of every podcast, in list order.
PodData(c) == [i \in 1..Len(c) |-> <<c[i].url, c[i].id>>]

SyncAll_data ==
    /\ pc = "SyncAll_data"
    /\ loc' = [loc EXCEPT !.pod_data = PodData(cat)]
    /\ held' = ReleaseAll("ctrl")
    /\ pc' = "SyncAll_spawn"
    /\ UNCHANGED <<db, cat, inbox, cur, feeds, units, batches, notes, pre,
                   prevMsg, budget, tally>>

SyncAll_spawn ==
    /\ pc = "SyncAll_spawn"
    /\ feeds' = SpawnAll(feeds, loc.pod_data)
    /\ pc' = "idle"
    /\ UNCHANGED <<db, cat, inbox, cur, loc, held, units, batches, notes,
                   pre, prevMsg, budget, tally>>

\* borrowed_pod_list.get(pod_index).unwrap(), then episodes.lock().unwrap()
\* of that podcast; the handler keeps the podcast's id and its any_unplayed.
LockEpisodes(next) ==
    IF InRange(cat, cur.pod_index)
    THEN /\ Free(EpLock(Get(cat, cur.pod_index).id))
         /\ held' = Acquire("ctrl", EpLock(Get(cat, cur.pod_index).id))
         /\ loc' = [loc EXCEPT
                 !.pid = Get(cat, cur.pod_index).id,
                 !.podcast_any = Get(cat, cur.pod_index).any_unplayed]
         /\ pc' = next
         /\ UNCHANGED <<db, cat, inbox, cur, feeds, units, batches, notes,
                        pre, prevMsg, budget, tally>>
    ELSE Panic

\* Message::Ui(UiMsg::Play(pod_index, ep_index))
Play == pc = "Play" /\ LockPodcastList("Play_pod")

Play_pod == pc = "Play_pod" /\ LockEpisodes("Play_ep")

\* get(ep_index).unwrap().clone(), the block's two guards dropped.
Play_ep ==
    /\ pc = "Play_ep"
    /\ IF InRange(Get(cat, cur.pod_index).eps, cur.ep_index)
       THEN /\ loc' = [loc EXCEPT !.episode =
                        Get(Get(cat, cur.pod_index).eps, cur.ep_index)]
            /\ held' = ReleaseAll("ctrl")
            /\ pc' = "Play_exec"
            /\ UNCHANGED <<db, cat, inbox, cur, feeds, units, batches, notes,
                           pre, prevMsg, budget, tally>>
       ELSE Panic

\* match episode.path: play_file::execute fails or not, and a path is valid
\* Unicode or not.
PlayNotes(episode, outcome) ==
    IF episode.path # NoPath
    THEN CASE outcome = "ok" -> <<>>
           [] outcome = "err" -> <<UiSpawnMsgWin(
                "Error: Could not play file. Check configuration.", NoArg,
                MsgDuration)>>
           [] OTHER -> <<UiSpawnMsgWin(
                "Error: Filepath is not valid Unicode.", NoArg, MsgDuration)>>
    ELSE IF outcome = "err"
         THEN <<UiSpawnMsgWin("Error: Could not stream URL.", NoArg,
                              MsgDuration)>>
         ELSE <<>>

Play_exec ==
    /\ pc = "Play_exec"
    /\ \E outcome \in {"ok", "err", "not_unicode"} :
          notes' = notes \o PlayNotes(loc.episode, outcome)
    /\ pc' = "idle"
    /\ UNCHANGED <<db, cat, inbox, cur, loc, held, feeds, units, batches,
                   pre, prevMsg, budget, tally>>

\* cat with the episode list of the podcast at 0-based index i replaced: the
\* list is shared (Arc), so a write through a clone of the podcast shows here.
WithEpisodes(c, i, eps) == [c EXCEPT ![i + 1].eps = eps]

\* borrowed_pod_list[pod_index] = podcast, the clone with its new flag.
WithAnyUnplayed(c, i, flag) == [c EXCEPT ![i + 1].any_unplayed = flag]

\* The recheck that finds an unplayed episode whatever the list holds.
RecheckUnplayed_Stale(eps) == TRUE

\* main.rs 213-218: the loop that rechecks for unplayed episodes.
RecheckUnplayed(eps) == \E i \in 1..Len(eps) : ~eps[i].played

\* The flag flipped instead of set.
SetPlayed_Toggle(episode, played) == [episode EXCEPT !.played = ~@]

\* main.rs 204-206: the clone of the episode with its flag set.
SetPlayed(episode, played) == [episode EXCEPT !.played = played]

\* Message::Ui(UiMsg::MarkPlayed(pod_index, ep_index, played))
MarkPlayed == pc = "MarkPlayed" /\ LockPodcastList("MarkPlayed_pod")

MarkPlayed_pod == pc = "MarkPlayed_pod" /\ LockEpisodes("MarkPlayed_ep")

\* main.rs 204-219: the episode is cloned, flagged, persisted and stored
\* back, any_unplayed is recomputed and the episode guard is dropped.
MarkPlayed_ep ==
    /\ pc = "MarkPlayed_ep"
    /\ LET eps == Get(cat, cur.pod_index).eps IN
       IF InRange(eps, cur.ep_index)
       THEN LET episode == SetPlayed(Get(eps, cur.ep_index), cur.played)
                stored == [eps EXCEPT ![cur.ep_index + 1] = episode]
            IN /\ db' = SetPlayedStatus(db, episode.id, cur.played)
               /\ cat' = WithEpisodes(cat, cur.pod_index, stored)
               /\ loc' = [loc EXCEPT !.any_unplayed = RecheckUnplayed(stored)]
               /\ held' = ReleaseLast("ctrl")
               /\ pc' = "MarkPlayed_put"
               /\ UNCHANGED <<inbox, cur, feeds, units, batches, notes, pre,
                              prevMsg, budget, tally>>
       ELSE Panic

\* main.rs 220-224: the podcast is written back when the flag changed.
MarkPlayed_put ==
    /\ pc = "MarkPlayed_put"
    /\ cat' = IF loc.any_unplayed # loc.podcast_any
              THEN WithAnyUnplayed(cat, cur.pod_index, loc.any_unplayed)
              ELSE cat
    /\ held' = ReleaseAll("ctrl")
    /\ pc' = "idle"
    /\ UNCHANGED <<db, inbox, cur, loc, feeds, units, batches, notes, pre,
                   prevMsg, budget, tally>>

\* The flag copied instead of negated.
MarkAllFlag_Same(played) == played

\* main.rs 243: podcast.any_unplayed = !played
MarkAllFlag(played) == ~played

\* Message::Ui(UiMsg::MarkAllPlayed(pod_index, played))
MarkAllPlayed == pc = "MarkAllPlayed" /\ LockPodcastList("MarkAllPlayed_pod")

MarkAllPlayed_pod == pc = "MarkAllPlayed_pod" /\ LockEpisodes("MarkAllPlayed_eps")

\* The step whose reload comes back with no episode.
MarkAllPlayed_eps_Empty ==
    /\ pc = "MarkAllPlayed_eps"
    /\ db' = SetPlayedAll(db, Get(cat, cur.pod_index).eps, cur.played)
    /\ cat' = WithEpisodes(cat, cur.pod_index, <<>>)
    /\ held' = ReleaseLast("ctrl")
    /\ pc' = "MarkAllPlayed_put"
    /\ UNCHANGED <<inbox, cur, loc, feeds, units, batches, notes, pre,
                   prevMsg, budget, tally>>

\* main.rs 236-241: every episode's flag is persisted, the list is replaced
\* by db_inst.get_episodes(podcast.id), the episode guard is dropped.
MarkAllPlayed_eps ==
    /\ pc = "MarkAllPlayed_eps"
    /\ LET written == SetPlayedAll(db, Get(cat, cur.pod_index).eps, cur.played)
       IN /\ db' = written
          /\ cat' = WithEpisodes(cat, cur.pod_index, GetEpisodes(written, loc.pid))
    /\ held' = ReleaseLast("ctrl")
    /\ pc' = "MarkAllPlayed_put"
    /\ UNCHANGED <<inbox, cur, loc, feeds, units, batches, notes, pre,
                   prevMsg, budget, tally>>

\* main.rs 243-246
MarkAllPlayed_put ==
    /\ pc = "MarkAllPlayed_put"
    /\ cat' = WithAnyUnplayed(cat, cur.pod_index, MarkAllFlag(cur.played))
    /\ notes' = Append(notes, UiUpdateMenus)
    /\ held' = ReleaseAll("ctrl")
    /\ pc' = "idle"
    /\ UNCHANGED <<db, inbox, cur, loc, feeds, units, batches, pre, prevMsg,
                   budget, tally>>

\* std::fs::create_dir_all(&download_path) fails or not.
CreateDirNotes(pid, ok) ==
    IF ok THEN <<>>
    ELSE <<UiSpawnMsgWin("Could not create dir: {}", Title(pid), MsgDuration)>>

\* The step that gives the download up when the directory is missing.
CreateDir_Abort(next) ==
    /\ \E ok \in Bools :
          /\ notes' = notes \o CreateDirNotes(loc.pid, ok)
          /\ pc' = IF ok THEN next ELSE "idle"
          /\ held' = IF ok THEN held ELSE ReleaseAll("ctrl")
    /\ UNCHANGED <<db, cat, inbox, cur, loc, feeds, units, batches,
                   pre, prevMsg, budget, tally>>

\* main.rs 262-265 and 327-330: create_dir_all succeeds or fails; a failure
\* shows a message and the handler goes on.
CreateDir(next) ==
    /\ \E ok \in Bools : notes' = notes \o CreateDirNotes(loc.pid, ok)
    /\ pc' = next
    /\ UNCHANGED <<db, cat, inbox, cur, loc, held, feeds, units, batches,
                   pre, prevMsg, budget, tally>>

\* DownloadManager.download_list(episodes, dest): one Queued unit per
\* episode of the batch.
NewUnits(refs, pid, batch) ==
    {[ep |-> refs[i].id, pod |-> pid, batch |-> batch, st |-> "Queued"] :
        i \in 1..Len(refs)}

\* download_manager.download_list(..) and the end of the handler, where the
\* two guards are dropped.
Submit(n) ==
    /\ units' = units \cup NewUnits(loc.episode_refs, loc.pid, Len(batches) + 1)
    /\ batches' = Append(batches, [n |-> n, results |-> 0,
                                   write_failed |-> FALSE, completed |-> {}])
    /\ held' = ReleaseAll("ctrl")
    /\ pc' = "idle"
    /\ UNCHANGED <<db, cat, inbox, cur, loc, feeds, notes, pre, prevMsg,
                   budget, tally>>

\* Message::Ui(UiMsg::Download(pod_index, ep_index))
Download == pc = "Download" /\ LockPodcastList("Download_pod")

Download_pod == pc = "Download_pod" /\ LockEpisodes("Download_ep")

\* main.rs 256-257
Download_ep ==
    /\ pc = "Download_ep"
    /\ IF InRange(Get(cat, cur.pod_index).eps, cur.ep_index)
       THEN /\ loc' = [loc EXCEPT
                    !.episode = Get(Get(cat, cur.pod_index).eps, cur.ep_index),
                    !.episode_refs =
                        <<Get(Get(cat, cur.pod_index).eps, cur.ep_index)>>]
            /\ pc' = "Download_mkdir"
            /\ UNCHANGED <<db, cat, inbox, cur, held, feeds, units, batches,
                           notes, pre, prevMsg, budget,
                           tally>>
       ELSE Panic

Download_mkdir == pc = "Download_mkdir" /\ CreateDir("Download_submit")

Download_submit == pc = "Download_submit" /\ Submit(1)

\* The loop that misses the first episode.
EpisodeRefs_SkipFirst(eps) == SubSeq(eps, 2, Len(eps))

\* main.rs 317-322: a reference to every episode of the podcast.
EpisodeRefs(eps) == eps

\* Message::Ui(UiMsg::DownloadAll(pod_index))
DownloadAll == pc = "DownloadAll" /\ LockPodcastList("DownloadAll_pod")

DownloadAll_pod == pc = "DownloadAll_pod" /\ LockEpisodes("DownloadAll_eps")

DownloadAll_eps ==
    /\ pc = "DownloadAll_eps"
    /\ loc' = [loc EXCEPT
            !.episode_refs = EpisodeRefs(Get(cat, cur.pod_index).eps)]
    /\ pc' = "DownloadAll_mkdir"
    /\ UNCHANGED <<db, cat, inbox, cur, held, feeds, units, batches, notes,
                   pre, prevMsg, budget, tally>>

DownloadAll_mkdir == pc = "DownloadAll_mkdir" /\ CreateDir("DownloadAll_submit")

DownloadAll_submit ==
    pc = "DownloadAll_submit" /\ Submit(Len(Get(cat, cur.pod_index).eps))

\* Message::Dl(DownloadMsg::Complete(ep_data)): the result of
\* db_inst.insert_file is dropped (let _ =), whether Ok or Err.
Complete ==
    /\ pc = "Complete"
    /\ \E ok \in Bools :
          /\ db' = IF ok THEN InsertFile(db, cur.id, cur.file_path) ELSE db
          /\ loc' = [loc EXCEPT !.db_err = ~ok]
    /\ pc' = "Complete_lock"
    /\ UNCHANGED <<cat, inbox, cur, held, feeds, units, batches, notes,
                   pre, prevMsg, budget, tally>>

Complete_lock == pc = "Complete_lock" /\ LockPodcastList("Complete_pod")

\* iter().find(|pod| pod.id == Some(ep_data.pod_id)).unwrap(), then
\* episodes.lock().unwrap()
Complete_pod ==
    /\ pc = "Complete_pod"
    /\ IF Position(cat, cur.pod_id) # 0
       THEN /\ Free(EpLock(cur.pod_id))
            /\ held' = Acquire("ctrl", EpLock(cur.pod_id))
            /\ loc' = [loc EXCEPT !.pid = cur.pod_id]
            /\ pc' = "Complete_ep"
            /\ UNCHANGED <<db, cat, inbox, cur, feeds, units, batches, notes,
                           pre, prevMsg, budget, tally>>
       ELSE Panic

\* main.rs 280-288: the episode is found by id, its path is set, the guards
\* are dropped and the menus are refreshed.
Complete_ep ==
    /\ pc = "Complete_ep"
    /\ LET p == Position(cat, cur.pod_id)
           ep_idx == Position(cat[p].eps, cur.id)
       IN IF ep_idx # 0
          THEN /\ cat' = [cat EXCEPT ![p].eps[ep_idx].path = cur.file_path]
               /\ held' = ReleaseAll("ctrl")
               /\ notes' = Append(notes, UiUpdateMenus)
               /\ pc' = "idle"
               /\ UNCHANGED <<db, inbox, cur, loc, feeds, units, batches, pre,
                              prevMsg, budget, tally>>
          ELSE Panic

DlErrors == {"ResponseError", "ResponseDataError", "FileCreateError",
             "FileWriteError"}

\* main.rs 291-306
DlErrorText(kind) ==
    CASE kind = "ResponseError" -> "Error sending download request."
      [] kind = "ResponseDataError" -> "Error downloading episode."
      [] kind = "FileCreateError" -> "Error creating file."
      [] kind = "FileWriteError" -> "Error writing file to disk."

\* The handlers if a failed download ended the loop.
DlError_Fatal ==
    /\ pc \in DlErrors
    /\ Panic

DlError ==
    /\ pc \in DlErrors
    /\ notes' = Append(notes, UiSpawnMsgWin(DlErrorText(pc), NoArg, MsgDuration))
    /\ pc' = "idle"
    /\ UNCHANGED <<db, cat, inbox, cur, loc, held, feeds, units, batches,
                   pre, prevMsg, budget, tally>>

\* ----------------------------------------------------------------- workers
\* A feed checker fetches and parses its feed and sends one message:
\* NewData (no id was given), SyncData (an id was given) or Error.
FeedResults(w) ==
    {[type |-> "FeedError"]}
    \cup (IF w.id = NoId
          THEN {[type |-> "NewData", url |-> w.url, num_ep |-> k] :
                    k \in 0..MaxFeedEps}
          ELSE {[type |-> "SyncData", id |-> w.id, num_ep |-> k] :
                    k \in 0..MaxFeedEps})

FeedChecker ==
    /\ pc # "crashed"
    /\ \E w \in BagToSet(feeds) :
          /\ feeds' = feeds (-) SetToBag({w})
          /\ \E m \in FeedResults(w) :
                /\ inbox' = Append(inbox, m)
                /\ tally' = [tally EXCEPT !.failed =
                                 IF m.type = "FeedError" THEN @ + 1 ELSE @]
    /\ UNCHANGED <<db, cat, pc, cur, loc, held, units, batches, notes, pre,
                   prevMsg, budget>>

\* Queued -> InProgress
UnitStart ==
    /\ pc # "crashed"
    /\ \E u \in units :
          /\ u.st = "Queued"
          /\ units' = (units \ {u}) \cup {[u EXCEPT !.st = "InProgress"]}
    /\ UNCHANGED <<db, cat, inbox, pc, cur, loc, held, feeds, batches, notes,
                   pre, prevMsg, budget, tally>>

\* The one terminal result of a unit: Completed(localPath) or Failed(kind).
UnitResult(u, outcome) ==
    IF outcome = "Completed"
    THEN [type |-> "Complete", id |-> u.ep, pod_id |-> u.pod,
          file_path |-> FilePath(u.pod, u.ep)]
    ELSE [type |-> outcome, id |-> u.ep]

\* InProgress -> Completed | Failed(kind): the unit sends its result on the
\* inbound channel and is over. The batch counts its results and remembers
\* a FileWriteError and the episodes that completed.
UnitFinish ==
    /\ pc # "crashed"
    /\ \E u \in units :
          /\ u.st = "InProgress"
          /\ units' = units \ {u}
          /\ \E outcome \in {"Completed"} \cup DlErrors :
                /\ inbox' = Append(inbox, UnitResult(u, outcome))
                /\ batches' = [batches EXCEPT
                        ![u.batch].results = @ + 1,
                        ![u.batch].write_failed =
                            @ \/ outcome = "FileWriteError",
                        ![u.batch].completed =
                            IF outcome = "Completed" THEN @ \cup {u.ep} ELSE @]
    /\ UNCHANGED <<db, cat, pc, cur, loc, held, feeds, notes, pre, prevMsg,
                   budget, tally>>

\* ------------------------------------------------------------ specification
Controller ==
    \/ Recv \/ Quit \/ Noop \/ AddFeed
    \/ NewData \/ NewData_Ok \/ FeedError \/ SyncData \/ SyncData_Ok
    \/ Sync \/ Sync_get \/ Sync_spawn
    \/ SyncAll \/ SyncAll_data \/ SyncAll_spawn
    \/ Play \/ Play_pod \/ Play_ep \/ Play_exec
    \/ MarkPlayed \/ MarkPlayed_pod \/ MarkPlayed_ep \/ MarkPlayed_put
    \/ MarkAllPlayed \/ MarkAllPlayed_pod \/ MarkAllPlayed_eps
    \/ MarkAllPlayed_put
    \/ Download \/ Download_pod \/ Download_ep \/ Download_mkdir
    \/ Download_submit
    \/ DownloadAll \/ DownloadAll_pod \/ DownloadAll_eps \/ DownloadAll_mkdir
    \/ DownloadAll_submit
    \/ Complete \/ Complete_lock \/ Complete_pod \/ Complete_ep
    \/ DlError

Presentation == UiSend \/ UiLockPods \/ UiLockEps \/ UiRelease

Workers == FeedChecker \/ UnitStart \/ UnitFinish

Next == Controller \/ Presentation \/ Workers

Spec == Init /\ [][Next]_vars

\* Presentation without the snapshot: any index up to MaxBadIdx, whatever
\* the Catalog holds (UiMsg carries plain integers).
SnapPod(c, i) == IF InRange(c, i) THEN Get(c, i).id ELSE NoId
SnapEp(c, i, j) ==
    IF InRange(c, i) /\ InRange(Get(c, i).eps, j)
    THEN Get(Get(c, i).eps, j).id ELSE NoId

AnyIntents(c) ==
    {[type |-> "Quit"], [type |-> "SyncAll"], [type |-> "Noop"]}
    \cup {[type |-> "AddFeed", url |-> u] : u \in FeedUrls}
    \cup {[type |-> t, pod_index |-> i, snap_pod |-> SnapPod(c, i)] :
            t \in {"Sync", "DownloadAll"}, i \in 0..MaxBadIdx}
    \cup {[type |-> "MarkAllPlayed", pod_index |-> i, played |-> b,
           snap_pod |-> SnapPod(c, i)] : i \in 0..MaxBadIdx, b \in Bools}
    \cup {[type |-> t, pod_index |-> i, ep_index |-> j,
           snap_pod |-> SnapPod(c, i), snap_ep |-> SnapEp(c, i, j)] :
            t \in {"Play", "Download"}, i \in 0..MaxBadIdx, j \in 0..MaxBadIdx}
    \cup {[type |-> "MarkPlayed", pod_index |-> i, ep_index |-> j,
           played |-> b, snap_pod |-> SnapPod(c, i),
           snap_ep |-> SnapEp(c, i, j)] :
            i \in 0..MaxBadIdx, j \in 0..MaxBadIdx, b \in Bools}

UiSendAny ==
    /\ Running /\ budget > 0
    /\ held.ui = <<>> /\ Free(PodLock)
    /\ \E m \in AnyIntents(cat) : inbox' = Append(inbox, m)
    /\ budget' = budget - 1
    /\ UNCHANGED <<db, cat, pc, cur, loc, held, feeds, units, batches, notes,
                   pre, prevMsg, tally>>

PresentationAny == UiSendAny \/ UiLockPods \/ UiLockEps \/ UiRelease

NextAny == Controller \/ PresentationAny \/ Workers

\* The Controller under every message the channel's type admits.
SpecAny == Init /\ [][NextAny]_vars

\* The steady-state loop with downloads in flight: the database starts with
\* one podcast of MaxInitEps + 1 unplayed episodes, Presentation asks for
\* downloads only and takes no lock of its own.
InitLive ==
    /\ db = BuildDb(<<>>, <<[j \in 1..(MaxInitEps + 1) |-> FALSE]>>)
    /\ cat = GetPodcasts(db)
    /\ inbox = <<>>
    /\ pc = "idle"
    /\ cur = NoMsg
    /\ loc = NoLoc
    /\ held = [ctrl |-> <<>>, ui |-> <<>>]
    /\ feeds = EmptyBag
    /\ units = {}
    /\ batches = <<>>
    /\ notes = <<>>
    /\ pre = [cat |-> cat, db |-> db]
    /\ prevMsg = NoMsg
    /\ budget = MaxIntents
    /\ tally = NoTally

LiveIntents(c) ==
    {m \in Intents(c) : m.type \in {"Download", "DownloadAll"}}

UiSendLive ==
    /\ Running /\ budget > 0
    /\ held.ui = <<>> /\ Free(PodLock)
    /\ \E m \in LiveIntents(cat) : inbox' = Append(inbox, m)
    /\ budget' = budget - 1
    /\ UNCHANGED <<db, cat, pc, cur, loc, held, feeds, units, batches, notes,
                   pre, prevMsg, tally>>

ControllerLive ==
    \/ Recv
    \/ Download \/ Download_pod \/ Download_ep \/ Download_mkdir
    \/ Download_submit
    \/ DownloadAll \/ DownloadAll_pod \/ DownloadAll_eps \/ DownloadAll_mkdir
    \/ DownloadAll_submit
    \/ Complete \/ Complete_lock \/ Complete_pod \/ Complete_ep
    \/ DlError

PresentationLive == UiSendLive

NextLive == ControllerLive \/ PresentationLive \/ UnitStart \/ UnitFinish

\* The main thread and every download worker are scheduled; Presentation
\* may stop sending intents at any time.
LiveSpec ==
    /\ InitLive /\ [][NextLive]_vars
    /\ WF_vars(ControllerLive)
    /\ WF_vars(UnitStart) /\ WF_vars(UnitFinish)

\* The steady-state loop with feed checkers in flight: the database starts
\* with MaxInitPods + 1 podcasts, each with its own url and no episode yet,
\* and Presentation asks for SyncAll only.
InitSync ==
    /\ db = [i \in 1..(MaxInitPods + 1) |->
                [id |-> i, url |-> <<"feed", i>>, eps |-> <<>>]]
    /\ cat = GetPodcasts(db)
    /\ inbox = <<>>
    /\ pc = "idle"
    /\ cur = NoMsg
    /\ loc = NoLoc
    /\ held = [ctrl |-> <<>>, ui |-> <<>>]
    /\ feeds = EmptyBag
    /\ units = {}
    /\ batches = <<>>
    /\ notes = <<>>
    /\ pre = [cat |-> cat, db |-> db]
    /\ prevMsg = NoMsg
    /\ budget = MaxIntents
    /\ tally = NoTally

UiSendSync ==
    /\ Running /\ budget > 0
    /\ held.ui = <<>> /\ Free(PodLock)
    /\ inbox' = Append(inbox, [type |-> "SyncAll"])
    /\ budget' = budget - 1
    /\ UNCHANGED <<db, cat, pc, cur, loc, held, feeds, units, batches, notes,
                   pre, prevMsg, tally>>

ControllerSync ==
    \/ Recv
    \/ SyncAll \/ SyncAll_data \/ SyncAll_spawn
    \/ SyncData \/ SyncData_Ok \/ FeedError

NextSync == ControllerSync \/ UiSendSync \/ FeedChecker

\* The main thread and every feed checker are scheduled; Presentation may
\* stop sending intents at any time.
SyncSpec ==
    /\ InitSync /\ [][NextSync]_vars
    /\ WF_vars(ControllerSync)
    /\ WF_vars(FeedChecker)

\* -------------------------------------------------------------- properties
ShowMessages(ns) == {k \in 1..Len(ns) : ns[k].type = "UiSpawnMsgWin"}

\* C1: between two handled messages every podcast of the Catalog has
\* any_unplayed equal to "some episode of it is not played", also a podcast
\* with no episodes after MarkAllPlayed(p, false).
C1_AnyUnplayedInvariant ==
    pc = "idle" =>
        \A i \in 1..Len(cat) :
            cat[i].any_unplayed = (\E j \in 1..Len(cat[i].eps) :
                                      ~cat[i].eps[j].played)

\* C2: the Controller holds no Catalog lock when it creates the destination
\* directory, submits to the DownloadManager, spawns a feed checker or
\* invokes the player.
IoSteps == {"AddFeed", "Sync_spawn", "SyncAll_spawn", "Play_exec",
            "Download_mkdir", "Download_submit", "DownloadAll_mkdir",
            "DownloadAll_submit"}

C2_NoLockDuringIo == pc \in IoSteps => held.ctrl = <<>>

\* C3: a thread that holds an episode-list lock took the podcast-list lock
\* before it; no thread asks for the podcast-list lock while it holds an
\* episode-list lock; the Controller never waits for a lock while it holds
\* one, so it cannot be part of a cycle of waiting threads.
PodLockRequests == {"Sync", "SyncAll", "Play", "MarkPlayed", "MarkAllPlayed",
                    "Download", "DownloadAll", "Complete_lock",
                    "NewData_Ok", "SyncData_Ok"}
EpLockRequests == {"Play_pod", "MarkPlayed_pod", "MarkAllPlayed_pod",
                   "Download_pod", "DownloadAll_pod"}

IsEpLock(l) == l # PodLock

PodLockFirst(t) ==
    \A k \in 1..Len(held[t]) :
        IsEpLock(held[t][k]) => k > 1 /\ held[t][1] = PodLock

C3_LockOrder ==
    /\ PodLockFirst("ctrl") /\ PodLockFirst("ui")
    /\ (pc \in PodLockRequests => held.ctrl = <<>>)
    /\ (pc \in EpLockRequests /\ InRange(cat, cur.pod_index) =>
            /\ held.ctrl = <<PodLock>>
            /\ Free(EpLock(Get(cat, cur.pod_index).id)))
    /\ (pc = "Complete_pod" /\ Position(cat, cur.pod_id) # 0 =>
            held.ctrl = <<PodLock>> /\ Free(EpLock(cur.pod_id)))

\* C3 witness: the Controller holds both locks while Presentation has sent
\* its intents and waits for the podcast-list lock.
C3_Witness ==
    /\ Len(held.ctrl) = 2 /\ held.ctrl[1] = PodLock /\ IsEpLock(held.ctrl[2])
    /\ pc = "MarkPlayed_ep"

\* C4: the podcast (and episode) a handler resolves from the indices of an
\* intent is the one that was at those indices when Presentation sent it.
C4_IndexSnapshot ==
    ("pod_index" \in DOMAIN cur /\ cur.snap_pod # NoId /\ loc.pid # NoId) =>
        /\ loc.pid = cur.snap_pod
        /\ (loc.episode.id # NoId => loc.episode.id = cur.snap_ep)

\* C5: no message is fatal, and a message that reports a worker failure or
\* meets a persistence failure is answered by exactly one show-message, of
\* duration 5000.
FailureMsgs == {"FeedError"} \cup DlErrors

C5_NoFatalMessage ==
    /\ pc # "crashed"
    /\ (pc = "idle" /\ (cur.type \in FailureMsgs \/ loc.db_err) =>
            /\ Cardinality(ShowMessages(notes)) = 1
            /\ \A k \in ShowMessages(notes) : notes[k].dur = 5000)

\* C6: a DownloadAll submission for a podcast with N episodes eventually has
\* exactly N terminal results sent on the inbound channel: never more than
\* N, exactly N once no unit of the batch is outstanding, and that point is
\* reached under every interleaving of the workers and of other batches.
BatchIds == 1..MaxIntents

Submitted(b) == b <= Len(batches)

Outstanding(b) == {u \in units : u.batch = b}

BatchCounts(b) ==
    /\ batches[b].results <= batches[b].n
    /\ Outstanding(b) = {} => batches[b].results = batches[b].n

C6_BatchCompleteness ==
    /\ [](\A b \in BatchIds : Submitted(b) => BatchCounts(b))
    /\ \A b \in BatchIds :
          Submitted(b) ~>
              (/\ Submitted(b) /\ Outstanding(b) = {}
               /\ batches[b].results = batches[b].n)

C6_Witness ==
    /\ Len(batches) = 2
    /\ batches[1].n = MaxInitEps + 1 /\ batches[1].results = batches[1].n
    /\ batches[2].results = batches[2].n

\* C7: once an episode of a batch has failed with FileWriteError, every
\* unit still outstanding (of that batch and of any other) reaches its
\* terminal result, and every episode that completed has its Complete
\* result merged into the podcast list by the Controller.
EpisodeAt(c, eid) ==
    {<<i, j>> \in (1..Len(c)) \X (1..(SumLens(c))) :
        j <= Len(c[i].eps) /\ c[i].eps[j].id = eid}

Merged(eid) ==
    \E ij \in EpisodeAt(cat, eid) : cat[ij[1]].eps[ij[2]].path # NoPath

WriteFailed(b) == Submitted(b) /\ batches[b].write_failed

AllMerged ==
    \A b \in BatchIds :
        Submitted(b) => \A eid \in batches[b].completed : Merged(eid)

C7_FailureIsolation ==
    \A b \in BatchIds : WriteFailed(b) ~> (units = {} /\ AllMerged)

C7_Witness ==
    /\ Len(batches) = 2
    /\ WriteFailed(1) /\ batches[1].n = MaxInitEps + 1
    /\ batches[1].completed # {} /\ batches[2].completed # {}
    /\ units = {} /\ AllMerged
    /\ pc = "idle" /\ inbox = <<>>

\* C8: MarkPlayed(p, e, true) handled right after MarkPlayed(p, e, true) leaves
\* the episode played and the podcast list and the database as the first
\* application left them.
SameMarkPlayed(m1, m2) ==
    /\ m1.type = "MarkPlayed" /\ m2.type = "MarkPlayed"
    /\ m1.pod_index = m2.pod_index /\ m1.ep_index = m2.ep_index
    /\ m1.played /\ m2.played

SecondMarkPlayed == pc = "idle" /\ SameMarkPlayed(prevMsg, cur)

C8_MarkPlayedIdempotent ==
    SecondMarkPlayed =>
        /\ Get(Get(cat, cur.pod_index).eps, cur.ep_index).played
        /\ cat = pre.cat
        /\ db = pre.db

C8_Witness ==
    /\ SecondMarkPlayed
    /\ Get(cat, cur.pod_index).any_unplayed = FALSE
    /\ cat = pre.cat

\* C9: handling the feed Error that a Sync produced leaves the podcast list
\* and the database unchanged and emits exactly one notification,
\* show-message("Error retrieving RSS feed.", 5000), and no refresh-menus.
FeedErrorHandled == pc = "idle" /\ cur.type = "FeedError"

C9_FeedErrorNoMutation ==
    FeedErrorHandled =>
        /\ cat = pre.cat
        /\ db = pre.db
        /\ notes = <<[type |-> "UiSpawnMsgWin",
                      text |-> "Error retrieving RSS feed.",
                      arg |-> NoArg, dur |-> 5000]>>

C9_Witness ==
    /\ FeedErrorHandled
    /\ prevMsg.type = "Sync"
    /\ Len(notes) = 1

\* C10: handling NewData when the insert is accepted persists the podcast
\* with its k episodes, makes the podcast list one longer, and emits
\* refresh-menus followed by show-message("Successfully added k episodes.",
\* 5000), k being the count the insert returned.
NewDataAccepted == pc = "idle" /\ cur.type = "NewData" /\ ~loc.db_err

Persisted(d, url, k) ==
    \E i \in 1..Len(d) :
        /\ d[i].url = url /\ Len(d[i].eps) = k
        /\ \A j \in 1..Len(pre.db) : pre.db[j].id # d[i].id

C10_NewDataAdds ==
    NewDataAccepted =>
        /\ Len(db) = Len(pre.db) + 1
        /\ Persisted(db, cur.url, cur.num_ep)
        /\ Len(cat) = Len(pre.cat) + 1
        /\ cat = GetPodcasts(db)
        /\ notes = <<UiUpdateMenus,
                     [type |-> "UiSpawnMsgWin",
                      text |-> "Successfully added {} episodes.",
                      arg |-> cur.num_ep, dur |-> 5000]>>

C10_Witness ==
    /\ NewDataAccepted
    /\ cur.num_ep = MaxFeedEps
    /\ Len(cat) = Len(pre.cat) + 1

\* C11: after MarkAllPlayed(i, played) every episode of the podcast at i has
\* played = played in the database and in the podcast list, the podcast's
\* any_unplayed is not played, and exactly one refresh-menus was sent.
MarkAllHandled == pc = "idle" /\ cur.type = "MarkAllPlayed"

AllFlagged(eps, played) == \A j \in 1..Len(eps) : eps[j].played = played

C11_MarkAllPlayed ==
    MarkAllHandled =>
        LET podcast == Get(cat, cur.pod_index)
            stored == GetEpisodes(db, podcast.id)
        IN /\ AllFlagged(podcast.eps, cur.played)
           /\ AllFlagged(stored, cur.played)
           /\ Len(stored) = Len(podcast.eps)
           /\ Len(podcast.eps) = Len(Get(pre.cat, cur.pod_index).eps)
           /\ podcast.any_unplayed = ~cur.played
           /\ notes = <<UiUpdateMenus>>

C11_Witness ==
    /\ MarkAllHandled /\ cur.played
    /\ Len(Get(cat, cur.pod_index).eps) >= 2
    /\ Get(pre.cat, cur.pod_index).any_unplayed

\* C12: once Quit is handled the Controller takes no further message and
\* changes neither the podcast list nor the database, starts no worker, and
\* has sent exactly one tear-down, its last notification; workers that are
\* still running can send their results, which stay on the channel unread.
QuitHandled == cur.type = "Quit" /\ pc # "Quit"

WorkerResults == {"NewData", "SyncData", "FeedError", "Complete"} \cup DlErrors

C12_QuitTerminal ==
    /\ [](QuitHandled =>
            /\ pc = "done"
            /\ notes = <<UiTearDown>>
            /\ feeds # EmptyBag => ENABLED FeedChecker
            /\ (\E u \in units : u.st = "InProgress") => ENABLED UnitFinish)
    /\ [][QuitHandled =>
            /\ QuitHandled'
            /\ cur' = cur /\ notes' = notes
            /\ cat' = cat /\ db' = db
            /\ Len(inbox') >= Len(inbox)
            /\ BagCardinality(feeds') <= BagCardinality(feeds)
            /\ Len(batches') = Len(batches)]_vars

C12_Witness ==
    /\ QuitHandled
    /\ \E k \in 1..Len(inbox) : inbox[k].type \in WorkerResults
    /\ feeds = EmptyBag /\ units = {}

\* C13: the Controller takes the oldest message of the channel, and only
\* when the handling of the one before is over; producers add at the end,
\* so what waits is never reordered; and the podcast list, the database and
\* the notifications change only inside a handler.
Taken == cur' # cur \/ Len(inbox') < Len(inbox)

Handling == pc \notin {"idle", "crashed", "done"}

C13_ArrivalOrder ==
    [][/\ Taken =>
            /\ pc = "idle" /\ inbox # <<>>
            /\ cur' = Head(inbox) /\ inbox' = Tail(inbox)
       /\ ~Taken =>
            /\ Len(inbox') >= Len(inbox)
            /\ SubSeq(inbox', 1, Len(inbox)) = inbox
       /\ (~Handling /\ ~Taken) =>
            (cat' = cat /\ db' = db /\ notes' = notes)]_vars

C13_Witness ==
    /\ Handling
    /\ Len(inbox) >= 2
    /\ inbox[1].type # inbox[2].type

\* C14: handling Complete(episode id, podcast id, path) sets the path of
\* exactly that episode of that podcast in the podcast list, records the
\* same path for it in the database, and sends refresh-menus; nothing else
\* of the podcast list changes.
CompleteHandled == pc = "idle" /\ cur.type = "Complete"

WithPath(c, pid, eid, path) ==
    [i \in 1..Len(c) |->
        IF c[i].id = pid
        THEN [c[i] EXCEPT !.eps =
                [j \in 1..Len(@) |->
                    IF @[j].id = eid THEN [@[j] EXCEPT !.path = path]
                    ELSE @[j]]]
        ELSE c[i]]

C14_CompleteMerge ==
    CompleteHandled =>
        /\ cat = WithPath(pre.cat, cur.pod_id, cur.id, cur.file_path)
        /\ db = WithPath(pre.db, cur.pod_id, cur.id, cur.file_path)
        /\ notes = <<UiUpdateMenus>>

\* C15: handling MarkPlayed(p, e, played) changes the played flag of episode
\* e alone, in the podcast list and in the database, and any_unplayed of
\* podcast p when its recomputed value differs; everything else, paths
\* included, is as before, and no notification is sent.
MarkPlayedHandled == pc = "idle" /\ cur.type = "MarkPlayed"

WithPlayed(c, eid, played) ==
    [i \in 1..Len(c) |->
        [c[i] EXCEPT !.eps =
            [j \in 1..Len(@) |->
                IF @[j].id = eid THEN [@[j] EXCEPT !.played = played]
                ELSE @[j]]]]

C15_MarkPlayedFrame ==
    MarkPlayedHandled =>
        LET p == cur.pod_index + 1
            eid == pre.cat[p].eps[cur.ep_index + 1].id
            flagged == WithPlayed(pre.cat, eid, cur.played)
            recomputed == \E j \in 1..Len(flagged[p].eps) :
                              ~flagged[p].eps[j].played
        IN /\ cat = IF recomputed # pre.cat[p].any_unplayed
                    THEN [flagged EXCEPT ![p].any_unplayed = recomputed]
                    ELSE flagged
           /\ db = WithPlayed(pre.db, eid, cur.played)
           /\ notes = <<>>

C15_Witness ==
    /\ MarkPlayedHandled /\ cur.played
    /\ Get(pre.cat, cur.pod_index).any_unplayed
    /\ ~Get(cat, cur.pod_index).any_unplayed
    /\ Len(cat) >= 2

\* C16: SyncAll starts one feed checker per podcast of the list it read,
\* each with that podcast's (url, id), and starts them with no lock held;
\* every checker's result is delivered and handled whatever the others did;
\* a success that the database accepts is merged; and as many "Error
\* retrieving RSS feed." messages are shown as checkers failed.
Pairs(c) == [i \in 1..Len(c) |-> [url |-> c[i].url, id |-> c[i].id]]

Occurrences(seq, w) == Cardinality({i \in 1..Len(seq) : seq[i] = w})

PendingFeedErrors ==
    Occurrences([k \in 1..Len(inbox) |-> inbox[k].type], "FeedError")
    + (IF pc = "FeedError" THEN 1 ELSE 0)

Quiescent == feeds = EmptyBag /\ inbox = <<>> /\ pc = "idle"

SyncMerged ==
    (pc = "idle" /\ cur.type = "SyncData" /\ ~loc.db_err) =>
        /\ cat = GetPodcasts(db)
        /\ Len(GetEpisodes(db, cur.id))
              = Len(GetEpisodes(pre.db, cur.id)) + cur.num_ep

C16_SyncAllFanOut ==
    /\ [](/\ pc = "SyncAll_spawn" =>
               (/\ held.ctrl = <<>>
                /\ loc.pod_data
                     = [i \in 1..Len(cat) |-> <<cat[i].url, cat[i].id>>])
          /\ tally.failed = tally.notified + PendingFeedErrors
          /\ SyncMerged)
    /\ [][(pc = "SyncAll_spawn" /\ pc' = "idle") =>
            \A w \in BagToSet(feeds') :
                CopiesIn(w, feeds')
                    = CopiesIn(w, feeds) + Occurrences(Pairs(cat), w)]_vars
    /\ (feeds # EmptyBag \/ inbox # <<>>) ~> Quiescent

C16_Witness ==
    /\ Quiescent
    /\ tally.failed >= 1 /\ tally.notified = tally.failed
    /\ \E i \in 1..Len(cat) : cat[i].eps # <<>>
    /\ budget = 0

\* C17: handling AddFeed(url) changes neither the podcast list nor the
\* database and shows nothing; it starts exactly one feed checker with no
\* id. A checker with no id delivers its success as NewData; a checker
\* started by Sync or SyncAll has the podcast's id and delivers its success
\* as SyncData with that id.
AddFeedHandled == pc = "idle" /\ cur.type = "AddFeed"

Checker(url, id) == [url |-> url, id |-> id]

Started(f, g) == {w \in BagToSet(g) : CopiesIn(w, g) > CopiesIn(w, f)}

Delivered(w, m) ==
    /\ m.type \in {"NewData", "SyncData", "FeedError"}
    /\ m.type = "NewData" => (w.id = NoId /\ m.url = w.url)
    /\ m.type = "SyncData" => (w.id # NoId /\ m.id = w.id)

C17_AddFeedFrame ==
    /\ [](AddFeedHandled => (cat = pre.cat /\ db = pre.db /\ notes = <<>>))
    /\ [][/\ (pc = "AddFeed" /\ pc' # pc) =>
                /\ pc' = "idle"
                /\ cat' = cat /\ db' = db /\ notes' = notes /\ inbox' = inbox
                /\ feeds' = feeds (+) SetToBag({Checker(cur.url, NoId)})
          /\ (pc = "Sync_spawn" /\ pc' # pc) =>
                LET podcast == Get(cat, cur.pod_index)
                IN /\ podcast.id # NoId
                   /\ feeds' = feeds (+)
                         SetToBag({Checker(podcast.url, podcast.id)})
          /\ (pc = "SyncAll_spawn" /\ pc' # pc) =>
                \A w \in Started(feeds, feeds') :
                    /\ w.id # NoId
                    /\ \E i \in 1..Len(cat) : w = Checker(cat[i].url, cat[i].id)
          /\ BagCardinality(feeds') < BagCardinality(feeds) =>
                /\ Len(inbox') = Len(inbox) + 1
                /\ \E w \in BagToSet(feeds) :
                      /\ feeds' = feeds (-) SetToBag({w})
                      /\ Delivered(w, inbox'[Len(inbox')])]_vars

C17_Witness ==
    /\ AddFeedHandled
    /\ Checker(cur.url, NoId) \in BagToSet(feeds)
    /\ \E k \in 1..Len(inbox) : inbox[k].type = "SyncData"

\* C18: in Download and DownloadAll a failure to create the directory shows
\* one message "Could not create dir: <title>" for 5000 ms, leaves the
\* podcast list as it was, does not stop the loop, and the episode or
\* episodes read are still handed to the download manager.
MkdirSteps == {"Download_mkdir", "DownloadAll_mkdir"}

SubmitSteps == {"Download_submit", "DownloadAll_submit"}

DirMessage ==
    [type |-> "UiSpawnMsgWin", text |-> "Could not create dir: {}",
     arg |-> Title(Get(cat, cur.pod_index).id), dur |-> 5000]

Resolved ==
    LET eps == Get(cat, cur.pod_index).eps
    IN IF cur.type = "Download" THEN {Get(eps, cur.ep_index).id}
       ELSE {eps[j].id : j \in 1..Len(eps)}

Handed ==
    {[ep |-> e, pod |-> Get(cat, cur.pod_index).id,
      batch |-> Len(batches) + 1, st |-> "Queued"] : e \in Resolved}

DownloadHandled == pc = "idle" /\ cur.type \in {"Download", "DownloadAll"}

C18_CreateDirNonFatal ==
    /\ []((pc \in SubmitSteps \/ DownloadHandled) =>
            /\ notes \in {<<>>, <<DirMessage>>}
            /\ cat = pre.cat /\ db = pre.db)
    /\ [][/\ (pc \in MkdirSteps /\ pc' # pc) =>
                /\ pc' \in SubmitSteps
                /\ notes' \in {notes, Append(notes, DirMessage)}
          /\ (pc \in SubmitSteps /\ pc' # pc) =>
                /\ pc' = "idle"
                /\ Len(batches') = Len(batches) + 1
                /\ Cardinality(Handed) =
                      (IF cur.type = "Download" THEN 1
                       ELSE Len(Get(cat, cur.pod_index).eps))
                /\ units' = units \cup Handed
                /\ notes' = notes]_vars

C18_Witness ==
    /\ DownloadHandled /\ cur.type = "DownloadAll"
    /\ notes = <<DirMessage>>
    /\ Cardinality({u \in units : u.batch = Len(batches)}) >= 1
    /\ Len(batches) = 2

\* C19: when insert_podcast fails for NewData, or update_podcast fails for
\* SyncData, the podcast list is what it was before the message, no
\* UiUpdateMenus is sent, and exactly one message is shown ("Error adding
\* podcast to database." or "Error synchronizing <title>.", 5000 ms); the
\* podcast list is reloaded from the database only after an Ok.
FeedMerges == {"NewData", "SyncData"}

Rejected == pc = "idle" /\ cur.type \in FeedMerges /\ loc.db_err

RejectMessage ==
    IF cur.type = "NewData"
    THEN [type |-> "UiSpawnMsgWin", text |-> "Error adding podcast to database.",
          arg |-> NoArg, dur |-> 5000]
    ELSE [type |-> "UiSpawnMsgWin", text |-> "Error synchronizing {}.",
          arg |-> Title(cur.id), dur |-> 5000]

C19_RejectedMerge ==
    /\ [](Rejected => (cat = pre.cat /\ notes = <<RejectMessage>>))
    /\ [][(cur.type \in FeedMerges /\ cur' = cur) =>
            /\ pc \in FeedMerges =>
                  /\ cat' = cat
                  /\ pc' # pc =>
                        IF db' # db \/ ~loc'.db_err
                        THEN pc' \notin {"idle", "crashed"} /\ notes' = notes
                        ELSE pc' = "idle"
            /\ cat' # cat =>
                  /\ pc \in {"NewData_Ok", "SyncData_Ok"}
                  /\ ~loc.db_err
                  /\ cat' = GetPodcasts(db)]_vars

C19_Witness ==
    /\ Rejected /\ cur.type = "SyncData"
    /\ cat # GetPodcasts(db)

\* C20: whenever the main loop handles Complete(id, pod_id, path), the
\* podcast list has a podcast with that pod_id whose episode list has an
\* episode with that id, so neither unwrap() of the handler fails, whatever
\* NewData, SyncData or MarkAllPlayed was handled since the download was
\* submitted.
Mergeable(m) ==
    \E i \in 1..Len(cat) :
        /\ cat[i].id = m.pod_id
        /\ \E j \in 1..Len(cat[i].eps) : cat[i].eps[j].id = m.id

C20_CompleteMergeable ==
    cur.type = "Complete" => (Mergeable(cur) /\ pc # "crashed")

C20_Witness ==
    /\ pc = "idle" /\ cur.type = "Complete"
    /\ prevMsg.type = "MarkAllPlayed"
    /\ \E k \in 1..Len(batches) : cur.id \in batches[k].completed

\* C21: after every handled message, each episode of the podcast list has
\* the played flag and the path that the database holds for that episode
\* id; in particular an episode has a path in the podcast list only if the
\* database has recorded that path.
Stored(eid) ==
    {e \in UNION {{db[i].eps[j] : j \in 1..Len(db[i].eps)} : i \in 1..Len(db)} :
        e.id = eid}

SamePlayed ==
    \A i \in 1..Len(cat) : \A j \in 1..Len(cat[i].eps) :
        \A e \in Stored(cat[i].eps[j].id) : e.played = cat[i].eps[j].played

SamePath ==
    \A i \in 1..Len(cat) : \A j \in 1..Len(cat[i].eps) :
        /\ Stored(cat[i].eps[j].id) # {}
        /\ \A e \in Stored(cat[i].eps[j].id) : e.path = cat[i].eps[j].path

C21_NoDrift == pc = "idle" => (SamePlayed /\ SamePath)

====
